---- MODULE Spec2Model ----
(***************************************************************************)
(* Model of schwifty/iban.py: the IBAN entity (construction, checksum      *)
(* substitution, generation, validation, accessors), the numeric checksum  *)
(* engine (numerify, MOD 97) and the BBAN pattern compiler.                *)
(*                                                                         *)
(* Strings are sequences of one-character strings.  Python integers of     *)
(* arbitrary precision are sequences of decimal digits (most significant   *)
(* first); only their residue is ever taken.                               *)
(***************************************************************************)
EXTENDS Integers, Sequences, FiniteSets, TLC

(***************************************************************************)
(* Bounds of the model.                                                    *)
(***************************************************************************)
\* longest BBAN part of a literal handed to the constructor
MaxTailLen == 4
\* longest bank_code / account_code handed to generate
MaxCodeLen == 4
\* most clauses in a BBAN pattern handed to the pattern compiler
MaxClauses == 2
\* longest subject string handed to a compiled matcher
MaxSubjLen == 3

(***************************************************************************)
(* Characters and string helpers.                                          *)
(***************************************************************************)
\* string.digits
digits == <<"0","1","2","3","4","5","6","7","8","9">>

\* string.ascii_uppercase
ascii_uppercase == <<"A","B","C","D","E","F","G","H","I","J","K","L","M",
                     "N","O","P","Q","R","S","T","U","V","W","X","Y","Z">>

\* the lowercase letters, in the order of ascii_uppercase
ascii_lowercase == <<"a","b","c","d","e","f","g","h","i","j","k","l","m",
                     "n","o","p","q","r","s","t","u","v","w","x","y","z">>

\* _alphabet = string.digits + string.ascii_uppercase
alphabet == digits \o ascii_uppercase

Range(s) == {s[i] : i \in 1..Len(s)}

DigitSet == Range(digits)

UpperSet == Range(ascii_uppercase)

LowerSet == Range(ascii_lowercase)

\* characters that \s matches
Whitespace == {" ", "\n"}

Min(a, b) == IF a < b THEN a ELSE b

\* Python's s[a:b] for 0 <= a, 0 <= b
Slice(s, a, b) == SubSeq(s, a + 1, Min(b, Len(s)))

\* Python's s[a:]
SliceFrom(s, a) == SubSeq(s, a + 1, Len(s))

\* all strings over chars of length 0..n
StrUpTo(chars, n) == UNION {[1..k -> chars] : k \in 0..n}

\* str.index on a sequence without repeated elements; 0-based
IndexOf(seq, c) == (CHOOSE i \in 1..Len(seq) : seq[i] = c) - 1

\* str.upper on one character
UpperChar(c) == IF c \in LowerSet THEN ascii_uppercase[IndexOf(ascii_lowercase, c) + 1] ELSE c

RECURSIVE StripWhitespace(_)
StripWhitespace(s) ==
    IF s = <<>> THEN <<>>
    ELSE IF s[1] \in Whitespace THEN StripWhitespace(Tail(s))
    ELSE <<s[1]>> \o StripWhitespace(Tail(s))

\* str.rjust(width, '0')
RECURSIVE rjust(_, _)
rjust(s, width) == IF Len(s) >= width THEN s ELSE rjust(<<"0">> \o s, width)

(***************************************************************************)
(* Numeric checksum engine.                                                *)
(***************************************************************************)
\* str(n) for 0 <= n <= 99, as decimal digit values
DecDigits(n) == IF n < 10 THEN <<n>> ELSE <<n \div 10, n % 10>>

RECURSIVE JoinIndexes(_)
JoinIndexes(s) ==
    IF s = <<>> THEN <<>>
    ELSE DecDigits(IndexOf(alphabet, s[1])) \o JoinIndexes(Tail(s))

\* numerify: the decimal digits of int(''.join(str(_alphabet.index(c)) ...));
\* ValueError when a character is not in _alphabet or the string is empty
numerify(s) ==
    IF s = <<>> \/ \E i \in 1..Len(s) : s[i] \notin Range(alphabet)
    THEN [err |-> "ValueError", digits |-> <<>>]
    ELSE [err |-> "", digits |-> JoinIndexes(s)]

\* n * 100 on a decimal digit sequence
Times100(ds) == ds \o <<0, 0>>

\* n % m on a decimal digit sequence
RECURSIVE IntMod(_, _)
IntMod(ds, m) ==
    IF ds = <<>> THEN 0
    ELSE (IntMod(SubSeq(ds, 1, Len(ds) - 1), m) * 10 + ds[Len(ds)]) % m

\* '{:2d}'.format(v) for 0 <= v <= 99: right-aligned in width 2, padded with spaces
Format2d(v) == IF v < 10 THEN <<" ", digits[v + 1]>> ELSE <<digits[(v \div 10) + 1], digits[(v % 10) + 1]>>

(***************************************************************************)
(* The base string holder (schwifty.common.Base).                          *)
(***************************************************************************)
\* clean: whitespace removed, upper-cased
clean(s) == LET t == StripWhitespace(s) IN [i \in 1..Len(t) |-> UpperChar(t[i])]

\* the component properties of IBAN, projections of the stored code
bban(code) == SliceFrom(code, 4)

country_code(code) == Slice(code, 0, 2)

checksum_digits(code) == Slice(code, 2, 4)

\* IBAN._calc_checksum_digits
calc_checksum_digits(code) ==
    LET n == numerify(bban(code) \o country_code(code))
    IN  IF n.err # "" THEN [err |-> n.err, val |-> <<>>]
        ELSE [err |-> "", val |-> Format2d(98 - IntMod(Times100(n.digits), 97))]

(***************************************************************************)
(* Pattern compiler.  Pattern text is made of digits, '!' and letters,     *)
(* all of which a regular expression reads as themselves.                  *)
(***************************************************************************)
\* _spec_to_re: type character -> the characters its class matches
\* (\d, [A-Z], [A-Za-z0-9], a space)
spec_to_re == [n |-> DigitSet, a |-> UpperSet, c |-> UpperSet \cup LowerSet \cup DigitSet, e |-> {" "}]

\* int() of a string of decimal digits
RECURSIVE ParseInt(_)
ParseInt(s) == IF s = <<>> THEN 0 ELSE ParseInt(SubSeq(s, 1, Len(s) - 1)) * 10 + IndexOf(digits, s[Len(s)])

\* last position of the longest run of digits of s that starts at i (i - 1 when there is none)
RECURSIVE DigitRunEnd(_, _)
DigitRunEnd(s, i) == IF i <= Len(s) /\ s[i] \in DigitSet THEN DigitRunEnd(s, i + 1) ELSE i - 1

\* spec_re = (\d+)(!)?([nace]) tried at position i of s
MatchSpecRe(s, i) ==
    LET k == DigitRunEnd(s, i)
        bang == k + 1 <= Len(s) /\ s[k + 1] = "!"
        t == IF bang THEN k + 2 ELSE k + 1
    IN  [ok |-> k >= i /\ t <= Len(s) /\ s[t] \in DOMAIN spec_to_re,
         count |-> SubSeq(s, i, k), bang |-> bang, type |-> t, next |-> t + 1]

\* convert(match): the class of group 3 with quantifier {count} or {1,count}
convert(s, m) ==
    [kind |-> "class", cls |-> s[m.type],
     min |-> IF m.bang THEN ParseInt(m.count) ELSE 1, max |-> ParseInt(m.count)]

\* re.sub(spec_re, convert, bban_spec) from position i on: text that spec_re
\* does not match is copied
RECURSIVE Sub(_, _)
Sub(s, i) ==
    IF i > Len(s) THEN <<>>
    ELSE LET m == MatchSpecRe(s, i)
         IN  IF m.ok THEN <<convert(s, m)>> \o Sub(s, m.next)
             ELSE <<[kind |-> "lit", cls |-> s[i], min |-> 1, max |-> 1]>> \o Sub(s, i + 1)

\* re.compile('^%s$' % ...): a repeat {m,n} with m > n is rejected
re_compile(items) ==
    IF \E i \in 1..Len(items) : items[i].min > items[i].max
    THEN [err |-> "re.error", items |-> <<>>]
    ELSE [err |-> "", items |-> items]

\* add_bban_regex: the specification with its compiled matcher attached
add_bban_regex(country, spec) ==
    LET r == re_compile(Sub(spec.bban_spec, 1))
    IN  IF r.err # "" THEN [err |-> r.err, spec |-> spec]
        ELSE [err |-> "", spec |-> ("regex" :> r.items) @@ spec]

\* the positions at which a match of items, begun at pos, can end
RECURSIVE Ends(_, _, _)
Ends(items, s, pos) ==
    IF items = <<>> THEN {pos}
    ELSE LET it == items[1]
         IN  IF it.kind = "lit"
             THEN IF pos + 1 <= Len(s) /\ s[pos + 1] = it.cls
                  THEN Ends(Tail(items), s, pos + 1) ELSE {}
             ELSE UNION {Ends(Tail(items), s, pos + k) :
                      k \in {k \in it.min..it.max :
                               /\ pos + k <= Len(s)
                               /\ \A j \in 1..k : s[pos + j] \in spec_to_re[it.cls]}}

\* regex.match(s) for '^...$': '$' matches at the end of the string and
\* just before a newline that ends the string
regex_match(items, s) ==
    \E e \in Ends(items, s, 0) :
        \/ e = Len(s)
        \/ e = Len(s) - 1 /\ s[Len(s)] = "\n"

(***************************************************************************)
(* State.                                                                  *)
(***************************************************************************)
VARIABLES
    registry,    \* registry.get('iban'): country code -> specification
    phase,       \* "idle": no IBAN instance; "live": a constructor has returned one
    op,          \* the operation performed last ("none": nothing has been called yet)
    args,        \* the arguments of the last constructor call
    skeleton,    \* the string generate handed to the constructor
    checksum,    \* what _calc_checksum_digits returned during construction
    code,        \* self._code of the instance, the compact value
    result,      \* outcome of the last operation: error raised and value returned
    evaluated,   \* the checks the last validate() ran, in order
    clauses,     \* pattern compiler: the clauses the pattern text was written from
    bban_spec,   \* pattern compiler: the pattern text
    compiled,    \* pattern compiler: outcome of add_bban_regex
    subject,     \* pattern compiler: the string last handed to the matcher
    matched      \* pattern compiler: whether the matcher accepted it

vars == <<registry, phase, op, args, skeleton, checksum, code, result, evaluated,
          clauses, bban_spec, compiled, subject, matched>>

ibanVars == <<registry, phase, op, args, skeleton, checksum, code, result, evaluated>>

regexVars == <<clauses, bban_spec, compiled, subject, matched>>

(***************************************************************************)
(* Country specification table.                                            *)
(***************************************************************************)
\* the table as loaded, before the manipulate hook
iban_table ==
    (<<"A","A">> :> [iban_length |-> 7,
                     bban_spec |-> <<"2","!","n","1","!","n">>,
                     positions |-> [bank_code |-> <<0, 2>>, branch_code |-> <<2, 2>>,
                                    account_code |-> <<2, 3>>]])
    @@
    (<<"B","B">> :> [iban_length |-> 8,
                     bban_spec |-> <<"1","!","n","2","!","c","1","!","n">>,
                     positions |-> [bank_code |-> <<0, 1>>, branch_code |-> <<1, 3>>,
                                    account_code |-> <<3, 4>>]])

\* registry.manipulate('iban', add_bban_regex)
manipulate(table) == [k \in DOMAIN table |-> add_bban_regex(k, table[k]).spec]

\* _get_iban_spec
get_iban_spec(cc) ==
    IF cc \in DOMAIN registry THEN [err |-> "", spec |-> registry[cc]]
    ELSE [err |-> "UnknownCountry", spec |-> <<>>]

\* code_length
code_length(spec, code_type) == spec.positions[code_type][2] - spec.positions[code_type][1]

(***************************************************************************)
(* Validation.  Each check yields "" when it passes and the error it       *)
(* raises otherwise.                                                       *)
(***************************************************************************)
\* the pattern [A-Z]{2}\d{2}[A-Z]* of validate_characters, for a subject s
characters_re(s) ==
    << [kind |-> "class", cls |-> "a", min |-> 2, max |-> 2],
       [kind |-> "class", cls |-> "n", min |-> 2, max |-> 2],
       [kind |-> "class", cls |-> "a", min |-> 0, max |-> Len(s)] >>

\* re.match(pattern, s): a match that starts at the beginning of s
re_match(items, s) == Ends(items, s, 0) # {}

\* IBAN.validate_characters
validate_characters(c) ==
    IF ~re_match(characters_re(c), c) THEN "InvalidCharacters" ELSE ""

\* IBAN.validate_length
validate_length(c) ==
    LET s == get_iban_spec(country_code(c))
    IN  IF s.err # "" THEN s.err
        ELSE IF s.spec.iban_length # Len(c) THEN "InvalidLength" ELSE ""

\* IBAN.validate_format
validate_format(c) ==
    LET s == get_iban_spec(country_code(c))
    IN  IF s.err # "" THEN s.err
        ELSE IF ~regex_match(s.spec.regex, bban(c)) THEN "InvalidBBANStructure" ELSE ""

\* IBAN.numeric
numeric(c) == numerify(bban(c) \o Slice(c, 0, 4))

\* validate_checksum comparing the residue with 0 instead of 1
validate_checksum_mut(c) ==
    LET n == numeric(c)
    IN  IF n.err # "" THEN n.err
        ELSE IF IntMod(n.digits, 97) = 0 THEN "InvalidChecksum" ELSE ""

\* IBAN.validate_checksum
validate_checksum(c) ==
    LET n == numeric(c)
    IN  IF n.err # "" THEN n.err
        ELSE IF IntMod(n.digits, 97) # 1 THEN "InvalidChecksum" ELSE ""

\* validate running the length check before the characters check
validate_mut(c) ==
    LET e1 == validate_characters(c)
        e2 == validate_length(c)
        e3 == validate_format(c)
        e4 == validate_checksum(c)
    IN  IF e2 # "" THEN [err |-> e2, evaluated |-> <<"length">>]
        ELSE IF e1 # "" THEN [err |-> e1, evaluated |-> <<"length", "characters">>]
        ELSE IF e3 # "" THEN [err |-> e3, evaluated |-> <<"length", "characters", "format">>]
        ELSE [err |-> e4, evaluated |-> <<"length", "characters", "format", "checksum">>]

\* IBAN.validate: the checks in order, the first error ends the call
validate(c) ==
    LET e1 == validate_characters(c)
        e2 == validate_length(c)
        e3 == validate_format(c)
        e4 == validate_checksum(c)
    IN  IF e1 # "" THEN [err |-> e1, evaluated |-> <<"characters">>]
        ELSE IF e2 # "" THEN [err |-> e2, evaluated |-> <<"characters", "length">>]
        ELSE IF e3 # "" THEN [err |-> e3, evaluated |-> <<"characters", "length", "format">>]
        ELSE [err |-> e4, evaluated |-> <<"characters", "length", "format", "checksum">>]

(***************************************************************************)
(* Construction and generation.                                            *)
(***************************************************************************)
\* _parse recomputing the checksum digits whatever they are
parse_mut(c) ==
    LET d == calc_checksum_digits(c)
    IN  IF d.err # "" THEN [err |-> d.err, code |-> c, checksum |-> <<>>]
        ELSE [err |-> "", code |-> country_code(c) \o d.val \o bban(c), checksum |-> d.val]

\* IBAN._parse on the stored code: the checksum digits "??" are replaced
parse(c) ==
    IF checksum_digits(c) = <<"?", "?">>
    THEN LET d == calc_checksum_digits(c)
         IN  IF d.err # "" THEN [err |-> d.err, code |-> c, checksum |-> <<>>]
             ELSE [err |-> "", code |-> country_code(c) \o d.val \o bban(c), checksum |-> d.val]
    ELSE [err |-> "", code |-> c, checksum |-> <<>>]

\* __init__ validating whatever allow_invalid says
new_mut(iban, allow_invalid) ==
    LET p == parse(clean(iban))
        v == validate(p.code)
    IN  IF p.err # "" THEN [err |-> p.err, code |-> <<>>, checksum |-> <<>>, evaluated |-> <<>>]
        ELSE IF v.err # "" THEN [err |-> v.err, code |-> <<>>, checksum |-> p.checksum, evaluated |-> v.evaluated]
        ELSE [err |-> "", code |-> p.code, checksum |-> p.checksum, evaluated |-> v.evaluated]

\* IBAN.__init__
new(iban, allow_invalid) ==
    LET p == parse(clean(iban))
        v == validate(p.code)
    IN  IF p.err # "" THEN [err |-> p.err, code |-> <<>>, checksum |-> <<>>, evaluated |-> <<>>]
        ELSE IF allow_invalid THEN [err |-> "", code |-> p.code, checksum |-> p.checksum, evaluated |-> <<>>]
        ELSE IF v.err # "" THEN [err |-> v.err, code |-> <<>>, checksum |-> p.checksum, evaluated |-> v.evaluated]
        ELSE [err |-> "", code |-> p.code, checksum |-> p.checksum, evaluated |-> v.evaluated]

\* generate rejecting a bank code that fills its field exactly
generate_mut(cc, bank_code, account_code) ==
    LET s == get_iban_spec(cc)
        bank_and_branch_code_length == code_length(s.spec, "bank_code") + code_length(s.spec, "branch_code")
        account_code_length == code_length(s.spec, "account_code")
        iban == cc \o <<"?", "?">> \o rjust(bank_code, bank_and_branch_code_length)
                   \o rjust(account_code, account_code_length)
        made == new(iban, FALSE)
        none == [code |-> <<>>, checksum |-> <<>>, evaluated |-> <<>>, skeleton |-> <<>>]
    IN  IF s.err # "" THEN [err |-> s.err] @@ none
        ELSE IF Len(bank_code) >= bank_and_branch_code_length THEN [err |-> "CodeTooLong"] @@ none
        ELSE IF Len(account_code) > account_code_length THEN [err |-> "CodeTooLong"] @@ none
        ELSE [skeleton |-> iban] @@ made

\* IBAN.generate
generate(cc, bank_code, account_code) ==
    LET s == get_iban_spec(cc)
        bank_and_branch_code_length == code_length(s.spec, "bank_code") + code_length(s.spec, "branch_code")
        account_code_length == code_length(s.spec, "account_code")
        iban == cc \o <<"?", "?">> \o rjust(bank_code, bank_and_branch_code_length)
                   \o rjust(account_code, account_code_length)
        made == new(iban, FALSE)
        none == [code |-> <<>>, checksum |-> <<>>, evaluated |-> <<>>, skeleton |-> <<>>]
    IN  IF s.err # "" THEN [err |-> s.err] @@ none
        ELSE IF Len(bank_code) > bank_and_branch_code_length THEN [err |-> "CodeTooLong"] @@ none
        ELSE IF Len(account_code) > account_code_length THEN [err |-> "CodeTooLong"] @@ none
        ELSE [skeleton |-> iban] @@ made

(***************************************************************************)
(* Accessors.                                                              *)
(***************************************************************************)
\* IBAN.formatted
RECURSIVE formatted(_)
formatted(c) == IF Len(c) <= 4 THEN c ELSE SubSeq(c, 1, 4) \o <<" ">> \o formatted(SliceFrom(c, 4))

\* IBAN._get_code
get_code(c, code_type) ==
    LET s == get_iban_spec(country_code(c))
    IN  IF s.err # "" THEN [err |-> s.err, val |-> <<>>]
        ELSE [err |-> "", val |-> Slice(bban(c), s.spec.positions[code_type][1], s.spec.positions[code_type][2])]

\* the value (or error) of each accessor of the instance
accessor(c, name) ==
    CASE name = "numeric" -> [err |-> numeric(c).err, val |-> numeric(c).digits]
      [] name = "formatted" -> [err |-> "", val |-> formatted(c)]
      [] name = "spec" -> [err |-> get_iban_spec(country_code(c)).err, val |-> get_iban_spec(country_code(c)).spec]
      [] name = "country_code" -> [err |-> "", val |-> country_code(c)]
      [] name = "checksum_digits" -> [err |-> "", val |-> checksum_digits(c)]
      [] name = "bban" -> [err |-> "", val |-> bban(c)]
      [] name \in {"bank_code", "branch_code", "account_code"} -> get_code(c, name)

Accessors == {"numeric", "formatted", "spec", "country_code", "checksum_digits", "bban",
              "bank_code", "branch_code", "account_code"}

(***************************************************************************)
(* Inputs.                                                                 *)
(***************************************************************************)
AA == <<"A", "A">>

BB == <<"B", "B">>

\* a country code that is not in the table
ZZ == <<"Z", "Z">>

\* first two characters of the literals handed to the constructor
LitCountries == {AA, BB, ZZ, <<"a", "a">>, <<"A", "1">>}

\* characters 2-3 of the literals handed to the constructor
LitChecksums == {<<"?", "?">>, <<"7", "5">>, <<"2", "9">>}

\* characters of the rest of the literals
TailChars == {"0", "a", " ", "-"}

\* literals whose BBAN part is not empty once cleaned
Literals ==
    {l \in {cc \o ck \o t : cc \in LitCountries, ck \in LitChecksums, t \in StrUpTo(TailChars, MaxTailLen)} :
        Len(clean(l)) > 4}

\* country codes handed to generate
GenCountries == {AA, BB, ZZ}

\* characters of the bank and account codes handed to generate
GenChars == {"0", "1"}

GenCodes == StrUpTo(GenChars, MaxCodeLen)

NoArgs == [ctor |-> "none", iban |-> <<>>, allow_invalid |-> FALSE,
           cc |-> <<>>, bank_code |-> <<>>, account_code |-> <<>>]

(***************************************************************************)
(* Operations on the IBAN entity.                                          *)
(***************************************************************************)
Init ==
    /\ registry = manipulate(iban_table)
    /\ phase = "idle"
    /\ op = "none"
    /\ args = NoArgs
    /\ skeleton = <<>>
    /\ checksum = <<>>
    /\ code = <<>>
    /\ result = [err |-> "", val |-> <<>>]
    /\ evaluated = <<>>
    /\ clauses = <<>>
    /\ bban_spec = <<>>
    /\ compiled = [done |-> FALSE, err |-> "", regex |-> <<>>]
    /\ subject = <<>>
    /\ matched = FALSE

\* IBAN(iban, allow_invalid)
New(iban, allow_invalid) ==
    LET r == new(iban, allow_invalid)
    IN  /\ phase' = IF r.err = "" THEN "live" ELSE "idle"
        /\ op' = "new"
        /\ args' = [NoArgs EXCEPT !.ctor = "new", !.iban = iban, !.allow_invalid = allow_invalid]
        /\ skeleton' = <<>>
        /\ checksum' = r.checksum
        /\ code' = r.code
        /\ result' = [err |-> r.err, val |-> <<>>]
        /\ evaluated' = r.evaluated
        /\ UNCHANGED <<registry, regexVars>>

\* IBAN.generate(country_code, bank_code, account_code)
Generate(cc, bank_code, account_code) ==
    LET r == generate(cc, bank_code, account_code)
    IN  /\ phase' = IF r.err = "" THEN "live" ELSE "idle"
        /\ op' = "generate"
        /\ args' = [NoArgs EXCEPT !.ctor = "generate", !.cc = cc, !.bank_code = bank_code,
                                  !.account_code = account_code]
        /\ skeleton' = r.skeleton
        /\ checksum' = r.checksum
        /\ code' = r.code
        /\ result' = [err |-> r.err, val |-> <<>>]
        /\ evaluated' = r.evaluated
        /\ UNCHANGED <<registry, regexVars>>

\* instance.validate()
Validate ==
    /\ phase = "live"
    /\ op' = "validate"
    /\ LET v == validate(code)
       IN  /\ result' = [err |-> v.err, val |-> IF v.err = "" THEN "True" ELSE "raised"]
           /\ evaluated' = v.evaluated
    /\ UNCHANGED <<registry, phase, args, skeleton, checksum, code, regexVars>>

\* one of the four checks called on its own
Check(name, err) ==
    /\ phase = "live"
    /\ op' = name
    /\ result' = [err |-> err, val |-> IF err = "" THEN "None" ELSE "raised"]
    /\ evaluated' = <<>>
    /\ UNCHANGED <<registry, phase, args, skeleton, checksum, code, regexVars>>

ValidateCharacters == Check("validate_characters", validate_characters(code))

ValidateLength == Check("validate_length", validate_length(code))

ValidateFormat == Check("validate_format", validate_format(code))

ValidateChecksum == Check("validate_checksum", validate_checksum(code))

\* reading one accessor of the instance
Access(name) ==
    /\ phase = "live"
    /\ op' = name
    /\ result' = accessor(code, name)
    /\ evaluated' = <<>>
    /\ UNCHANGED <<registry, phase, args, skeleton, checksum, code, regexVars>>

\* the model follows one instance: a constructor call, then calls on what it returned
Construct == op = "none" /\ \E iban \in Literals, allow_invalid \in BOOLEAN : New(iban, allow_invalid)

CallGenerate == op = "none" /\ \E cc \in GenCountries, b \in GenCodes, a \in GenCodes : Generate(cc, b, a)

ReadAccessor == \E name \in Accessors : Access(name)

Next ==
    \/ Construct
    \/ CallGenerate
    \/ Validate
    \/ ValidateCharacters
    \/ ValidateLength
    \/ ValidateFormat
    \/ ValidateChecksum
    \/ ReadAccessor

Spec == Init /\ [][Next]_vars

(***************************************************************************)
(* The pattern compiler on its own: a pattern is compiled, then strings    *)
(* are handed to the matcher.                                              *)
(***************************************************************************)
\* clause counts, as written in the pattern
Counts == {<<"0">>, <<"1">>, <<"2">>}

\* clause type characters; "x" is not a type of the pattern language
Types == {"n", "a", "c", "e", "x"}

ClauseSet == [count : Counts, bang : BOOLEAN, type : Types]

ClauseLists == UNION {[1..k -> ClauseSet] : k \in 1..MaxClauses}

\* <count>[!]<type> of each clause, concatenated
RECURSIVE PatternText(_)
PatternText(cl) ==
    IF cl = <<>> THEN <<>>
    ELSE cl[1].count \o (IF cl[1].bang THEN <<"!">> ELSE <<>>) \o <<cl[1].type>> \o PatternText(Tail(cl))

SubjectChars == {"1", "A", "x", " ", "\n"}

Subjects == StrUpTo(SubjectChars, MaxSubjLen)

InitRegex ==
    /\ registry = manipulate(iban_table)
    /\ phase = "idle"
    /\ op = "none"
    /\ args = NoArgs
    /\ skeleton = <<>>
    /\ checksum = <<>>
    /\ code = <<>>
    /\ result = [err |-> "", val |-> <<>>]
    /\ evaluated = <<>>
    /\ clauses \in ClauseLists
    /\ bban_spec = PatternText(clauses)
    /\ compiled = [done |-> FALSE, err |-> "", regex |-> <<>>]
    /\ subject = <<>>
    /\ matched = FALSE

\* add_bban_regex on a specification that carries the pattern
Compile ==
    LET r == add_bban_regex(<<>>, [bban_spec |-> bban_spec])
    IN  /\ ~compiled.done
        /\ op' = "compile"
        /\ compiled' = [done |-> TRUE, err |-> r.err, regex |-> IF r.err = "" THEN r.spec.regex ELSE <<>>]
        /\ UNCHANGED <<clauses, bban_spec, subject, matched>>
        /\ UNCHANGED <<registry, phase, args, skeleton, checksum, code, result, evaluated>>

\* spec['regex'].match(s)
Match(s) ==
    /\ compiled.done
    /\ compiled.err = ""
    /\ op' = "match"
    /\ subject' = s
    /\ matched' = regex_match(compiled.regex, s)
    /\ UNCHANGED <<clauses, bban_spec, compiled>>
    /\ UNCHANGED <<registry, phase, args, skeleton, checksum, code, result, evaluated>>

\* each compiled matcher is handed one subject
MatchSubject == op = "compile" /\ \E s \in Subjects : Match(s)

NextRegex ==
    \/ Compile
    \/ MatchSubject

SpecRegex == InitRegex /\ [][NextRegex]_vars

(***************************************************************************)
(* Vocabulary of the properties.                                           *)
(***************************************************************************)
\* the four validation errors
ValidationErrors == {"InvalidCharacters", "InvalidLength", "InvalidBBANStructure", "InvalidChecksum"}

\* the order validate() is to run its checks in
CheckOrder == <<"characters", "length", "format", "checksum">>

ObserverOps == {"validate", "validate_characters", "validate_length", "validate_format",
                "validate_checksum"} \cup Accessors

\* s matches ^[A-Z]{2}\d{2}[A-Z0-9]*$ as a whole string
Anchored(s) ==
    /\ Len(s) >= 4
    /\ s[1] \in UpperSet /\ s[2] \in UpperSet
    /\ s[3] \in DigitSet /\ s[4] \in DigitSet
    /\ \A i \in 5..Len(s) : s[i] \in UpperSet \cup DigitSet

\* n copies of '0'
Zeros(n) == [i \in 1..n |-> "0"]

\* width of the bank (bank + branch) field and of the account field of a country of the table
BankWidth(cc) ==
    (registry[cc].positions.bank_code[2] - registry[cc].positions.bank_code[1])
    + (registry[cc].positions.branch_code[2] - registry[cc].positions.branch_code[1])

AccountWidth(cc) == registry[cc].positions.account_code[2] - registry[cc].positions.account_code[1]

\* the string the constructor stored before _parse
Stored == clean(IF args.ctor = "generate" THEN skeleton ELSE args.iban)

\* the characters a clause type stands for in the pattern language
TypeClass(t) ==
    CASE t = "n" -> DigitSet
      [] t = "a" -> UpperSet
      [] t = "c" -> UpperSet \cup LowerSet \cup DigitSet
      [] t = "e" -> {" "}
      [] OTHER -> {}

\* every clause has a recognised type and a positive count
WellFormed(cl) == \A i \in 1..Len(cl) : cl[i].type \in {"n", "a", "c", "e"} /\ ParseInt(cl[i].count) > 0

\* s is the concatenation of one segment per clause: exactly count characters
\* of the class with '!', 1 to count characters without
RECURSIVE Segmented(_, _)
Segmented(cl, s) ==
    IF cl = <<>> THEN s = <<>>
    ELSE \E k \in (IF cl[1].bang THEN ParseInt(cl[1].count) ELSE 1)..ParseInt(cl[1].count) :
            /\ k <= Len(s)
            /\ \A j \in 1..k : s[j] \in TypeClass(cl[1].type)
            /\ Segmented(Tail(cl), SliceFrom(s, k))

(***************************************************************************)
(* Properties.                                                             *)
(***************************************************************************)
\* C1: generate for a country of the table, with a bank code and an account
\* code no longer than their fields, returns an IBAN on which validate()
\* succeeds.
C1_RoundTrip ==
    (/\ op = "generate"
     /\ args.cc \in DOMAIN registry
     /\ Len(args.bank_code) <= BankWidth(args.cc)
     /\ Len(args.account_code) <= AccountWidth(args.cc))
    => (result.err = "" /\ phase = "live" /\ validate(code).err = "")

\* C2: the checksum digits computed for a bban and country code over [0-9A-Z]
\* are exactly two characters, both decimal digits.
C2_TwoDigits ==
    checksum # <<>> => (Len(checksum) = 2 /\ checksum[1] \in DigitSet /\ checksum[2] \in DigitSet)

\* C3: whenever validate() has returned True (called on an instance, or run by
\* a constructor that validates), the compact value matches
\* ^[A-Z]{2}\d{2}[A-Z0-9]*$, has the length its country specifies, its bban
\* matches the country pattern in full and numerify(bban + compact[0:4]) mod 97 = 1.
C3_PostValidation ==
    (/\ phase = "live"
     /\ \/ op = "validate" /\ result.err = ""
        \/ op \in {"new", "generate"} /\ ~args.allow_invalid)
    => (/\ Anchored(code)
        /\ country_code(code) \in DOMAIN registry
        /\ Len(code) = registry[country_code(code)].iban_length
        /\ Len(bban(code)) \in Ends(registry[country_code(code)].regex, bban(code), 0)
        /\ numerify(bban(code) \o SubSeq(code, 1, 4)).err = ""
        /\ IntMod(numerify(bban(code) \o SubSeq(code, 1, 4)).digits, 97) = 1)

\* an instance built with allow_invalid passed validate() afterwards
C3_Witness ==
    op = "validate" /\ result.err = "" /\ args.ctor = "new" /\ args.allow_invalid

\* C4: validate() runs characters, length, format, checksum in that order and
\* stops at the first check that fails: the checks it ran are the prefix of
\* that order up to the earliest failing check, the error is that check's, and
\* True is returned only when all four pass.
C4_FirstFailure ==
    op = "validate" =>
        LET errs == <<validate_characters(code), validate_length(code),
                      validate_format(code), validate_checksum(code)>>
            failing == {i \in 1..4 : errs[i] # ""}
            first == IF failing = {} THEN 4 ELSE CHOOSE i \in failing : \A j \in failing : i <= j
        IN  /\ evaluated = SubSeq(CheckOrder, 1, first)
            /\ result.err = errs[first]
            /\ (result.val = "True") <=> (failing = {})

\* validate() stopped at the length check of a value whose format and
\* checksum checks fail too
C4_Witness ==
    /\ op = "validate"
    /\ evaluated = <<"characters", "length">>
    /\ result.err = "InvalidLength"
    /\ validate_format(code) # ""
    /\ validate_checksum(code) # ""

\* C5: validate_characters raises the invalid-characters error exactly for the
\* compact values that do not match ^[A-Z]{2}\d{2}[A-Z0-9]*$ as a whole.
C5_Characters ==
    op = "validate_characters" => ((result.err = "InvalidCharacters") <=> ~Anchored(code))

\* C6 as stated: with allow_invalid none of the four validation errors is
\* raised, and constructing a skeleton whose country code is not in the table
\* fails, no instance being returned (the code raises ValueError for every
\* error, so any error raised is taken for the unknown-country error).
C6_Original ==
    (op = "new" /\ args.allow_invalid) =>
        /\ result.err \notin ValidationErrors
        /\ (checksum_digits(Stored) = <<"?", "?">> /\ country_code(Stored) \notin DOMAIN registry)
              => (result.err # "" /\ phase = "idle")

\* C6 as amended: with allow_invalid the constructor raises none of the four
\* validation errors and never the unknown-country error; a skeleton whose
\* country code is not in the table and whose bban is not empty yields an
\* instance with "??" replaced by the computed checksum when bban and country
\* code are over [0-9A-Z], and fails with numerify's error otherwise.
C6_AllowInvalid ==
    (op = "new" /\ args.allow_invalid) =>
        /\ result.err \notin ValidationErrors \cup {"UnknownCountry"}
        /\ (/\ checksum_digits(Stored) = <<"?", "?">>
            /\ country_code(Stored) \notin DOMAIN registry
            /\ bban(Stored) # <<>>)
              => IF \A i \in 1..Len(Stored) : i \in {3, 4} \/ Stored[i] \in Range(alphabet)
                 THEN /\ result.err = "" /\ phase = "live"
                      /\ country_code(code) = country_code(Stored)
                      /\ bban(code) = bban(Stored)
                      /\ checksum_digits(code) = checksum
                      /\ checksum # <<"?", "?">> /\ Len(checksum) = 2
                 ELSE result.err = "ValueError" /\ phase = "idle"

\* a skeleton of an unknown country became an instance
C6_Witness ==
    /\ op = "new" /\ args.allow_invalid /\ phase = "live"
    /\ checksum_digits(Stored) = <<"?", "?">>
    /\ country_code(Stored) \notin DOMAIN registry
    /\ bban(Stored) # <<>>

\* C7: generate for a country of the table raises code-too-long, building
\* nothing, exactly when the bank code is longer than the bank and branch
\* fields together or the account code is longer than the account field;
\* otherwise the skeleton is country code, "??", the bank code left-padded
\* with '0' to its width and the account code left-padded with '0' to its
\* width (unpadded when it fills the field).
C7_FieldWidth ==
    (op = "generate" /\ args.cc \in DOMAIN registry) =>
        LET bw == BankWidth(args.cc)
            aw == AccountWidth(args.cc)
            b == args.bank_code
            a == args.account_code
        IN  IF Len(b) > bw \/ Len(a) > aw
            THEN result.err = "CodeTooLong" /\ phase = "idle" /\ skeleton = <<>> /\ code = <<>>
            ELSE /\ result.err # "CodeTooLong"
                 /\ skeleton = args.cc \o <<"?", "?">> \o Zeros(bw - Len(b)) \o b \o Zeros(aw - Len(a)) \o a
                 /\ (Len(b) = bw => SubSeq(skeleton, 5, 4 + bw) = b)
                 /\ (Len(a) = aw => SubSeq(skeleton, 5 + bw, 4 + bw + aw) = a)

\* a bank code that fills its field exactly was accepted
C7_Witness ==
    /\ op = "generate" /\ args.cc \in DOMAIN registry
    /\ Len(args.bank_code) = BankWidth(args.cc)
    /\ Len(args.account_code) < AccountWidth(args.cc)
    /\ skeleton # <<>>

\* C8: the matcher compiled from a well-formed pattern accepts a string iff
\* the whole string is the concatenation of one segment per clause.
C8_FullMatch ==
    (op = "match" /\ WellFormed(clauses)) => (matched <=> Segmented(clauses, subject))

\* C9: compiling a pattern with a clause of unknown type or of count 0 fails.
C9_InvalidSpecification ==
    (compiled.done /\ ~WellFormed(clauses)) => compiled.err # ""

\* C10: the compact value is rewritten only by the constructor and only when
\* the checksum digits are "??" (country code and bban are kept then); a
\* literal with other checksum digits is stored as cleaned; validate(), the
\* four checks and the accessors leave the compact value and the
\* specification table as they are, whether they return or raise.
C10_Immutable ==
    [][/\ op' \in ObserverOps => (code' = code /\ registry' = registry /\ phase' = phase)
       /\ (op' \in {"new", "generate"} /\ phase' = "live") =>
             LET stored == clean(IF args'.ctor = "generate" THEN skeleton' ELSE args'.iban)
             IN  /\ registry' = registry
                 /\ country_code(code') = country_code(stored)
                 /\ bban(code') = bban(stored)
                 /\ checksum_digits(stored) # <<"?", "?">> => (code' = stored /\ checksum' = <<>>)
                 /\ code' # stored => checksum_digits(code') = checksum']_vars

\* a call on an instance made from a literal with checksum digits other than
\* "??" raised, and the compact value is still the literal as cleaned
C10_Witness ==
    /\ op = "validate" /\ result.err # ""
    /\ args.ctor = "new" /\ checksum_digits(Stored) # <<"?", "?">>
    /\ code = Stored

====
